---- MODULE Spec2Model ----
(***************************************************************************)
(* A model of sqlitediff: the schema data model and its loading            *)
(* (schema.py, parser.py), the diff engine and its SQL rendering           *)
(* (diff.py), identifier escaping (escapes.py) and the script printed by   *)
(* the command line (__main__.py).                                         *)
(*                                                                         *)
(* Text is a sequence of string tokens; a name is a sequence of            *)
(* one-character strings, so that it can be spliced into text and          *)
(* inspected character by character.  A Python dict is a sequence of       *)
(* <<key, value>> pairs in insertion order.                                *)
(***************************************************************************)
EXTENDS Integers, Sequences, FiniteSets, TLC

VARIABLES
    conn_new, \* main: args.conn_new, the catalogue of the newer database
    conn_old, \* main: args.conn_old, the catalogue of the old database
    new,      \* main: new_schema
    old,      \* main: old_schema
    diff,     \* schema_diff: the SchemaDiff it builds and returns
    pc,       \* the position of the run
    stdout,   \* the text written to standard output so far
    exc,      \* the exception that ended main, "None" when there is none
    parsers   \* the number of lark.Lark parsers constructed so far

vars == <<conn_new, conn_old, new, old, diff, pc, stdout, exc, parsers>>

(***************************************************************************)
(* Bounds of the model.                                                    *)
(***************************************************************************)
\* the largest number of columns of a generated table
MaxCols == 2
\* the number of distinct source texts a generated index or view can take
MaxVersions == 2

(***************************************************************************)
(* Python values.                                                          *)
(***************************************************************************)
\* Optional[str] fields: the value None of Column.type
NoneType == "<None>"
\* Optional[str] fields: the value None of Table.sql
NoneText == <<"<None>">>

\* dict: the keys in insertion order
DictKeys(d) == [i \in 1..Len(d) |-> d[i][1]]

\* dict.keys() as a set (the operand of the set operators -, &)
KeySet(d) == {d[i][1] : i \in 1..Len(d)}

\* key in d
DictHas(d, k) == \E i \in 1..Len(d) : d[i][1] = k

\* d[k]
DictGet(d, k) == d[CHOOSE i \in 1..Len(d) : d[i][1] = k][2]

\* d.values() in insertion order
DictValues(d) == [i \in 1..Len(d) |-> d[i][2]]

\* del d[k] / d.pop(k): the other entries keep their order
DictDel(d, k) == SelectSeq(d, LAMBDA e : e[1] # k)

\* d[k] = v: an existing key keeps its position, a new key goes last
DictSet(d, k, v) ==
    IF DictHas(d, k)
    THEN [i \in 1..Len(d) |-> IF d[i][1] = k THEN <<k, v>> ELSE d[i]]
    ELSE Append(d, <<k, v>>)

\* the orders in which iterating a Python set may yield its elements
Perms(S) ==
    {s \in [1..Cardinality(S) -> S] :
        \A i, j \in 1..Cardinality(S) : i # j => s[i] # s[j]}

\* a set as a sequence, in one fixed order
RECURSIVE SetToSeq(_)
SetToSeq(S) ==
    IF S = {} THEN <<>>
    ELSE LET e == CHOOSE x \in S : TRUE IN <<e>> \o SetToSeq(S \ {e})

\* sep.join(parts) for a sequence of texts
RECURSIVE Join(_, _)
Join(sep, parts) ==
    IF Len(parts) = 0 THEN <<>>
    ELSE IF Len(parts) = 1 THEN parts[1]
    ELSE parts[1] \o sep \o Join(sep, Tail(parts))

(***************************************************************************)
(* escapes.py                                                              *)
(***************************************************************************)
Letters ==
    {"a", "b", "c", "d", "e", "f", "g", "h", "i", "j", "k", "l", "m",
     "n", "o", "p", "q", "r", "s", "t", "u", "v", "w", "x", "y", "z",
     "A", "B", "C", "D", "E", "F", "G", "H", "I", "J", "K", "L", "M",
     "N", "O", "P", "Q", "R", "S", "T", "U", "V", "W", "X", "Y", "Z"}

\* UNQUOTED_IDENTIFIER.match(s): re.match anchors the pattern [a-z_]\w* at
\* the start of s only, and \w* may match nothing
UnquotedIdentifierMatch(s) == Len(s) > 0 /\ s[1] \in Letters \cup {"_"}

\* s.replace('"', '""')
RECURSIVE DoubleQuotes(_)
DoubleQuotes(s) ==
    IF Len(s) = 0 THEN <<>>
    ELSE (IF s[1] = "\"" THEN <<"\"", "\"">> ELSE <<s[1]>>)
         \o DoubleQuotes(Tail(s))

sql_identifier(s, as_needed) ==
    IF as_needed /\ UnquotedIdentifierMatch(s) THEN s
    ELSE <<"\"">> \o DoubleQuotes(s) \o <<"\"">>

\* textwrap.indent(s, "-- "): the prefix goes before every line that is not
\* blank; the token "\n" ends a line
RECURSIVE IndentFrom(_, _)
IndentFrom(s, atLineStart) ==
    IF Len(s) = 0 THEN <<>>
    ELSE IF s[1] = "\n" THEN <<"\n">> \o IndentFrom(Tail(s), TRUE)
    ELSE (IF atLineStart THEN <<"-- ">> ELSE <<>>)
         \o <<s[1]>> \o IndentFrom(Tail(s), FALSE)

sql_comment(s) == IndentFrom(s, TRUE)

(***************************************************************************)
(* schema.py: Column, Table, Object (Index, View, Trigger), Schema         *)
(***************************************************************************)
Column(raw_name, type, constraints) ==
    [raw_name |-> raw_name, type |-> type, constraints |-> constraints]

\* Column.to_sql
Column_to_sql(c) ==
    Join(<<" ">>,
         <<c.raw_name>>
         \o (IF c.type # NoneType THEN <<(<<c.type>>)>> ELSE <<>>)
         \o [i \in 1..Cardinality(c.constraints) |->
                <<SetToSeq(c.constraints)[i]>>])

Table(name, raw_name, columns, constraints, options, sql) ==
    [name |-> name, raw_name |-> raw_name, columns |-> columns,
     constraints |-> constraints, options |-> options, sql |-> sql]

Object(cls, name, sql, tbl_name) ==
    [cls |-> cls, name |-> name, sql |-> sql, tbl_name |-> tbl_name]

\* Object.__str__
Object_str(o) == o.sql

Schema(tables, indices, views, triggers) ==
    [tables |-> tables, indices |-> indices, views |-> views,
     triggers |-> triggers]

(***************************************************************************)
(* diff.py: the Change variants and SchemaDiff                             *)
(***************************************************************************)
NewTable(table) == [cls |-> "NewTable", table |-> table]

ModifiedTable(old_table, new_table) ==
    [cls |-> "ModifiedTable", old |-> old_table, new |-> new_table,
     references |-> <<>>]

DeletedTable(table) == [cls |-> "DeletedTable", table |-> table]

NewColumn(table, column) ==
    [cls |-> "NewColumn", table |-> table, column |-> column]

ModifiedColumn(table, old_column, new_column) ==
    [cls |-> "ModifiedColumn", table |-> table, old |-> old_column,
     new |-> new_column]

DeletedColumn(table, column) ==
    [cls |-> "DeletedColumn", table |-> table, column |-> column]

NewObject(sql) == [cls |-> "NewObject", sql |-> sql]

ModifiedObject(type, name, old_sql, new_sql) ==
    [cls |-> "ModifiedObject", type |-> type, name |-> name,
     old |-> old_sql, new |-> new_sql]

DeletedObject(type, name) ==
    [cls |-> "DeletedObject", type |-> type, name |-> name]

ReferencedObject(sql) == [cls |-> "ReferencedObject", sql |-> sql]

SchemaDiff(new_changes, modified, deleted) ==
    [new |-> new_changes, modified |-> modified, deleted |-> deleted]

EmptyDiff == SchemaDiff(<<>>, <<>>, <<>>)

\* SchemaDiff.total_changes
total_changes(d) == Len(d.new) + Len(d.modified) + Len(d.deleted)

\* SchemaDiff.extend
extend(d, e) ==
    SchemaDiff(d.new \o e.new, d.modified \o e.modified,
               d.deleted \o e.deleted)

(***************************************************************************)
(* diff.py: the column-level and table-level diff                          *)
(***************************************************************************)
\* the loop of _dict_diff: pop every key of the iterable, ignoring KeyError
RECURSIVE PopEach(_, _)
PopEach(d, keys) ==
    IF Len(keys) = 0 THEN d
    ELSE PopEach(IF DictHas(d, keys[1]) THEN DictDel(d, keys[1]) ELSE d,
                 Tail(keys))

_dict_diff(new_d, old_keys) == PopEach(new_d, old_keys)

\* The loop over new.keys() & old.keys() runs in the order of new here; the
\* order of a Python set is not fixed, but the list it fills is only ever
\* read for its length by _table_diff.
_column_diff(table, new_c, old_c) ==
    LET added   == DictKeys(_dict_diff(new_c, DictKeys(old_c)))
        common  == SelectSeq(DictKeys(new_c), LAMBDA n : DictHas(old_c, n))
        changed == SelectSeq(common,
                       LAMBDA n : DictGet(new_c, n) # DictGet(old_c, n))
        removed == DictKeys(_dict_diff(old_c, DictKeys(new_c)))
    IN  SchemaDiff(
            [i \in 1..Len(added) |-> NewColumn(table, DictGet(new_c, added[i]))],
            [i \in 1..Len(changed) |->
                ModifiedColumn(table, DictGet(old_c, changed[i]),
                               DictGet(new_c, changed[i]))],
            [i \in 1..Len(removed) |->
                DeletedColumn(table, DictGet(old_c, removed[i]))])

\* the first loop of _diff_matches_column_order
RECURSIVE ApplyDeleted(_, _)
ApplyDeleted(altered, changes) ==
    IF Len(changes) = 0 THEN altered
    ELSE ApplyDeleted(
            IF changes[1].cls = "DeletedColumn"
            THEN DictDel(altered, changes[1].column.raw_name)
            ELSE altered,
            Tail(changes))

\* the second loop of _diff_matches_column_order
RECURSIVE ApplyNew(_, _)
ApplyNew(altered, changes) ==
    IF Len(changes) = 0 THEN altered
    ELSE ApplyNew(
            IF changes[1].cls = "NewColumn"
            THEN DictSet(altered, changes[1].column.raw_name,
                         changes[1].column)
            ELSE altered,
            Tail(changes))

\* Mutant of _diff_matches_column_order: the column names are compared as
\* sets, so a change of order alone goes unnoticed.
_diff_matches_column_order_AsSets(column_diff, new_c, old_c) ==
    KeySet(ApplyNew(ApplyDeleted(old_c, column_diff.deleted),
                    column_diff.new))
        = KeySet(new_c)

_diff_matches_column_order(column_diff, new_c, old_c) ==
    DictKeys(ApplyNew(ApplyDeleted(old_c, column_diff.deleted),
                      column_diff.new))
        = DictKeys(new_c)

\* Mutant of TableChange: a modified column does not force the recreation.
TableChange_IgnoresModifiedColumns(new_table, old_table) ==
    LET column_diff ==
            _column_diff(new_table, new_table.columns, old_table.columns)
        must_recreate_table ==
            \/ new_table.constraints # old_table.constraints
            \/ new_table.options # old_table.options
            \/ ~ _diff_matches_column_order(column_diff, new_table.columns,
                                            old_table.columns)
    IN  IF must_recreate_table
        THEN SchemaDiff(<<>>, <<ModifiedTable(old_table, new_table)>>, <<>>)
        ELSE column_diff

\* Mutant of TableChange: the column changes are merged into the diff even
\* when the table is recreated.
TableChange_KeepsColumnChanges(new_table, old_table) ==
    LET column_diff ==
            _column_diff(new_table, new_table.columns, old_table.columns)
        must_recreate_table ==
            \/ new_table.constraints # old_table.constraints
            \/ new_table.options # old_table.options
            \/ Len(column_diff.modified) > 0
            \/ ~ _diff_matches_column_order(column_diff, new_table.columns,
                                            old_table.columns)
    IN  IF must_recreate_table
        THEN SchemaDiff(column_diff.new,
                        <<ModifiedTable(old_table, new_table)>>,
                        column_diff.deleted)
        ELSE column_diff

\* the body of the loop of _table_diff over the tables in both schemas
TableChange(new_table, old_table) ==
    LET column_diff ==
            _column_diff(new_table, new_table.columns, old_table.columns)
        must_recreate_table ==
            \/ new_table.constraints # old_table.constraints
            \/ new_table.options # old_table.options
            \/ Len(column_diff.modified) > 0
            \/ ~ _diff_matches_column_order(column_diff, new_table.columns,
                                            old_table.columns)
    IN  IF must_recreate_table
        THEN SchemaDiff(<<>>, <<ModifiedTable(old_table, new_table)>>, <<>>)
        ELSE column_diff

RECURSIVE CommonTables(_, _, _)
CommonTables(new_t, old_t, names) ==
    IF Len(names) = 0 THEN EmptyDiff
    ELSE extend(TableChange(DictGet(new_t, names[1]),
                            DictGet(old_t, names[1])),
                CommonTables(new_t, old_t, Tail(names)))

\* _table_diff, with the orders in which its three loops visit the sets
\* new.keys() - old.keys(), new.keys() & old.keys(), old.keys() - new.keys()
_table_diff(new_t, old_t, added, common, removed) ==
    extend(
        SchemaDiff([i \in 1..Len(added) |-> NewTable(DictGet(new_t, added[i]))],
                   <<>>, <<>>),
        extend(CommonTables(new_t, old_t, common),
               SchemaDiff(<<>>, <<>>,
                   [i \in 1..Len(removed) |->
                       DeletedTable(DictGet(old_t, removed[i]))])))

(***************************************************************************)
(* diff.py: what the diff leaves in the dicts and tables it was given.     *)
(* The dicts of a schema are shared objects: a pop, a del or an item       *)
(* assignment made on the caller's dict would show in the schema.          *)
(***************************************************************************)
\* Mutant of _dict_diff_leaves: the keys are popped from the caller's dict.
_dict_diff_leaves_InPlace(new_d, old_keys) == PopEach(new_d, old_keys)

\* the dict passed to _dict_diff as new, after the call: the name new is
\* rebound to new.copy() before the first pop, so every pop acts on the copy
_dict_diff_leaves(new_d, old_keys) == new_d

\* the dicts passed to _column_diff as new and old, after its two calls of
\* _dict_diff
_column_diff_leaves(new_c, old_c) ==
    LET new_1 == _dict_diff_leaves(new_c, DictKeys(old_c))
        old_1 == _dict_diff_leaves(old_c, DictKeys(new_1))
    IN  <<new_1, old_1>>

\* the dict passed to _diff_matches_column_order as old, after the call:
\* the del and the item assignments act on altered, which is old.copy()
_diff_matches_column_order_leaves(column_diff, new_c, old_c) == old_c

\* the two tables of one turn of the loop of _table_diff, after the turn
TableChange_leaves(new_table, old_table) ==
    LET column_diff ==
            _column_diff(new_table, new_table.columns, old_table.columns)
        columns == _column_diff_leaves(new_table.columns, old_table.columns)
        old_2 == _diff_matches_column_order_leaves(column_diff, columns[1],
                                                   columns[2])
    IN  <<[new_table EXCEPT !.columns = columns[1]],
          [old_table EXCEPT !.columns = old_2]>>

\* the dicts new.tables and old.tables after _table_diff
_table_diff_leaves(new_t, old_t) ==
    <<[i \in 1..Len(new_t) |->
          IF DictHas(old_t, new_t[i][1])
          THEN <<new_t[i][1],
                 TableChange_leaves(new_t[i][2],
                                    DictGet(old_t, new_t[i][1]))[1]>>
          ELSE new_t[i]],
      [i \in 1..Len(old_t) |->
          IF DictHas(new_t, old_t[i][1])
          THEN <<old_t[i][1],
                 TableChange_leaves(DictGet(new_t, old_t[i][1]),
                                    old_t[i][2])[2]>>
          ELSE old_t[i]]>>

(***************************************************************************)
(* diff.py: the diff of the indexes, views and triggers                    *)
(***************************************************************************)
\* Mutant of _object_diff: every name in both schemas is reported as
\* modified, without comparing the two objects.
_object_diff_Unconditional(type, new_o, old_o, added, common, removed) ==
    SchemaDiff(
        [i \in 1..Len(added) |->
            NewObject(Object_str(DictGet(new_o, added[i])))],
        [i \in 1..Len(common) |->
            ModifiedObject(type, common[i],
                           Object_str(DictGet(old_o, common[i])),
                           Object_str(DictGet(new_o, common[i])))],
        [i \in 1..Len(removed) |-> DeletedObject(type, removed[i])])

\* Mutant of _object_diff: two objects of one name are compared by their
\* source text alone.
_object_diff_TextOnly(type, new_o, old_o, added, common, removed) ==
    LET changed == SelectSeq(common,
                       LAMBDA n : Object_str(DictGet(new_o, n))
                                  # Object_str(DictGet(old_o, n)))
    IN  SchemaDiff(
            [i \in 1..Len(added) |->
                NewObject(Object_str(DictGet(new_o, added[i])))],
            [i \in 1..Len(changed) |->
                ModifiedObject(type, changed[i],
                               Object_str(DictGet(old_o, changed[i])),
                               Object_str(DictGet(new_o, changed[i])))],
            [i \in 1..Len(removed) |-> DeletedObject(type, removed[i])])

\* _object_diff, with the orders in which its three loops visit their sets
_object_diff(type, new_o, old_o, added, common, removed) ==
    LET changed == SelectSeq(common,
                       LAMBDA n : DictGet(new_o, n) # DictGet(old_o, n))
    IN  SchemaDiff(
            [i \in 1..Len(added) |->
                NewObject(Object_str(DictGet(new_o, added[i])))],
            [i \in 1..Len(changed) |->
                ModifiedObject(type, changed[i],
                               Object_str(DictGet(old_o, changed[i])),
                               Object_str(DictGet(new_o, changed[i])))],
            [i \in 1..Len(removed) |-> DeletedObject(type, removed[i])])

(***************************************************************************)
(* diff.py: restoring the references of a recreated table                  *)
(***************************************************************************)
\* Mutant of _is_reference_modified: no object counts as modified or
\* deleted, so every object of a recreated table is restored.
_is_reference_modified_Never(o, d) == FALSE

_is_reference_modified(o, d) ==
    \/ \E i \in 1..Len(d.modified) :
          d.modified[i].cls = "ModifiedObject" /\ d.modified[i].name = o.name
    \/ \E i \in 1..Len(d.deleted) :
          d.deleted[i].cls = "DeletedObject" /\ d.deleted[i].name = o.name

\* the list arr that _add_table_references builds for the ModifiedTable c
ReferencesOf(c, d, objects) ==
    SelectSeq(objects,
        LAMBDA o : o.tbl_name = c.new.name /\ ~ _is_reference_modified(o, d))

\* the list object that the field references of the i-th change of
\* diff.modified holds: field(default_factory=list) builds a list of its
\* own for every ModifiedTable
ReferencesList(d, i) == i

\* what the second loop of _add_table_references appends to the list
\* object l, over the changes of diff.modified from the i-th on
RECURSIVE AppendedTo(_, _, _, _)
AppendedTo(d, objects, l, i) ==
    IF i > Len(d.modified) THEN <<>>
    ELSE (IF d.modified[i].cls = "ModifiedTable" /\ ReferencesList(d, i) = l
          THEN [j \in 1..Len(ReferencesOf(d.modified[i], d, objects)) |->
                   ReferencedObject(Object_str(
                       ReferencesOf(d.modified[i], d, objects)[j]))]
          ELSE <<>>)
         \o AppendedTo(d, objects, l, i + 1)

\* _add_table_references: every ModifiedTable of diff.modified gets its
\* list appended to its references, the other changes stay as they are
_add_table_references(d, objects) ==
    [d EXCEPT !.modified =
        [i \in 1..Len(d.modified) |->
            IF d.modified[i].cls = "ModifiedTable"
            THEN [d.modified[i] EXCEPT !.references =
                    @ \o AppendedTo(d, objects, ReferencesList(d, i), 1)]
            ELSE d.modified[i]]]

(***************************************************************************)
(* diff.py: rendering the changes                                         *)
(***************************************************************************)
\* what a to_sql that raised yields in place of a text
Raise(error) == <<"<raise>", error>>

Raised(text) == Len(text) > 0 /\ text[1] = "<raise>"

\* the first position at which pat occurs in text, 0 when it does not
FindSub(text, pat) ==
    LET hits == {i \in 1..(Len(text) - Len(pat) + 1) :
                    SubSeq(text, i, i + Len(pat) - 1) = pat}
    IN  IF hits = {} THEN 0
        ELSE CHOOSE i \in hits : \A j \in hits : i <= j

\* text.replace(pat, rep, 1)
ReplaceFirst(text, pat, rep) ==
    LET i == FindSub(text, pat)
    IN  IF i = 0 THEN text
        ELSE SubSeq(text, 1, i - 1) \o rep
             \o SubSeq(text, i + Len(pat), Len(text))

\* ObjectType.upper()
Upper(type) ==
    CASE type = "index" -> "INDEX"
      [] type = "view" -> "VIEW"
      [] type = "trigger" -> "TRIGGER"

NewTable_to_sql(c) ==
    IF c.table.sql = NoneText THEN Raise("ValueError")
    ELSE c.table.sql

ReferencedObject_to_sql(c) == c.sql \o <<";">>

\* Mutant of ModifiedTable_to_sql: the column list of the INSERT holds every
\* column of the new table.
ModifiedTable_to_sql_NewColumns(c, column_order) ==
    LET common == SelectSeq(column_order,
                      LAMBDA n : DictHas(c.new.columns, n))
        columns == Join(<<", ">>,
                       [i \in 1..Len(common) |->
                           DictGet(c.new.columns, common[i]).raw_name])
        new_sql_temp ==
            ReplaceFirst(c.new.sql, <<"CREATE TABLE ">> \o c.new.raw_name,
                         <<"CREATE TABLE ", "sqlitediff_temp">>)
        sql == <<
            <<"-- Previous table schema for ">> \o c.old.raw_name \o <<":">>,
            sql_comment(c.old.sql \o <<";">>),
            new_sql_temp \o <<";">>,
            <<"INSERT INTO ", "sqlitediff_temp", " (">> \o columns
                \o <<") SELECT ">> \o columns \o <<" FROM ">>
                \o c.old.raw_name \o <<";">>,
            <<"DROP TABLE ">> \o c.old.raw_name \o <<";">>,
            <<"ALTER TABLE ", "sqlitediff_temp", " RENAME TO ">>
                \o c.new.raw_name \o <<";">> >>
        restored ==
            IF Len(c.references) > 0
            THEN <<(<<>>),
                   <<"-- Restoring references to ">> \o c.new.raw_name
                       \o <<":">> >>
                 \o [i \in 1..Len(c.references) |->
                        ReferencedObject_to_sql(c.references[i])]
            ELSE <<>>
    IN  IF c.old.sql = NoneText THEN Raise("ValueError")
        ELSE IF c.new.sql = NoneText THEN Raise("ValueError")
        ELSE IF new_sql_temp = c.new.sql THEN Raise("ValueError")
        ELSE Join(<<"\n">>, sql \o restored)

\* ModifiedTable.to_sql; column_order is the order in which the set
\* new.columns.keys() & old.columns.keys() is iterated
ModifiedTable_to_sql(c, column_order) ==
    LET common == SelectSeq(column_order,
                      LAMBDA n : DictHas(c.new.columns, n)
                                 /\ DictHas(c.old.columns, n))
        columns == Join(<<", ">>,
                       [i \in 1..Len(common) |->
                           DictGet(c.old.columns, common[i]).raw_name])
        new_sql_temp ==
            ReplaceFirst(c.new.sql, <<"CREATE TABLE ">> \o c.new.raw_name,
                         <<"CREATE TABLE ", "sqlitediff_temp">>)
        sql == <<
            <<"-- Previous table schema for ">> \o c.old.raw_name \o <<":">>,
            sql_comment(c.old.sql \o <<";">>),
            new_sql_temp \o <<";">>,
            <<"INSERT INTO ", "sqlitediff_temp", " (">> \o columns
                \o <<") SELECT ">> \o columns \o <<" FROM ">>
                \o c.old.raw_name \o <<";">>,
            <<"DROP TABLE ">> \o c.old.raw_name \o <<";">>,
            <<"ALTER TABLE ", "sqlitediff_temp", " RENAME TO ">>
                \o c.new.raw_name \o <<";">> >>
        restored ==
            IF Len(c.references) > 0
            THEN <<(<<>>),
                   <<"-- Restoring references to ">> \o c.new.raw_name
                       \o <<":">> >>
                 \o [i \in 1..Len(c.references) |->
                        ReferencedObject_to_sql(c.references[i])]
            ELSE <<>>
    IN  IF c.old.sql = NoneText THEN Raise("ValueError")
        ELSE IF c.new.sql = NoneText THEN Raise("ValueError")
        ELSE IF new_sql_temp = c.new.sql THEN Raise("ValueError")
        ELSE Join(<<"\n">>, sql \o restored)

DeletedTable_to_sql(c) == <<"DELETE TABLE ">> \o c.table.raw_name \o <<";">>

NewColumn_to_sql(c) ==
    <<"ALTER TABLE ">> \o c.table.raw_name \o <<" ADD COLUMN ">>
    \o Column_to_sql(c.column) \o <<";">>

ModifiedColumn_to_sql(c) == Raise("TypeError")

DeletedColumn_to_sql(c) ==
    <<"ALTER TABLE ">> \o c.table.raw_name \o <<" DROP COLUMN ">>
    \o c.column.raw_name \o <<";">>

NewObject_to_sql(c) == c.sql \o <<";">>

ModifiedObject_to_sql(c) ==
    <<"-- Previous ", c.type, " schema for ">> \o c.name \o <<":", "\n">>
    \o sql_comment(c.old \o <<";">>) \o <<"\n">>
    \o <<"DROP ", Upper(c.type), " IF EXISTS ">>
    \o sql_identifier(c.name, TRUE) \o <<";", "\n">>
    \o c.new \o <<";">>

DeletedObject_to_sql(c) ==
    <<"DROP ", Upper(c.type), " IF EXISTS ">>
    \o sql_identifier(c.name, TRUE) \o <<";">>

\* Change.to_sql of the variant c
Change_to_sql(c, column_order) ==
    CASE c.cls = "NewTable" -> NewTable_to_sql(c)
      [] c.cls = "ModifiedTable" -> ModifiedTable_to_sql(c, column_order)
      [] c.cls = "DeletedTable" -> DeletedTable_to_sql(c)
      [] c.cls = "NewColumn" -> NewColumn_to_sql(c)
      [] c.cls = "ModifiedColumn" -> ModifiedColumn_to_sql(c)
      [] c.cls = "DeletedColumn" -> DeletedColumn_to_sql(c)
      [] c.cls = "NewObject" -> NewObject_to_sql(c)
      [] c.cls = "ModifiedObject" -> ModifiedObject_to_sql(c)
      [] c.cls = "DeletedObject" -> DeletedObject_to_sql(c)
      [] c.cls = "ReferencedObject" -> ReferencedObject_to_sql(c)

\* group.title() of the three group names of SchemaDiff.to_sql
Title(group) ==
    CASE group = "modified" -> "Modified"
      [] group = "deleted" -> "Deleted"
      [] group = "new" -> "New"

\* the banner that opens a group of SchemaDiff.to_sql
Banner(group) == <<"-- ", Title(group), " Objects --">>

\* Mutant of Groups: the new objects are rendered first.
Groups_NewFirst == <<"new", "modified", "deleted">>

\* the groups of SchemaDiff.to_sql in the order of grouped_changes
Groups == <<"modified", "deleted", "new">>

GroupChanges(d, group) ==
    CASE group = "modified" -> d.modified
      [] group = "deleted" -> d.deleted
      [] group = "new" -> d.new

\* the list statements of one group: its banner, then one text per change
GroupStatements(d, group, column_order) ==
    <<Banner(group)>>
    \o [i \in 1..Len(GroupChanges(d, group)) |->
           Change_to_sql(GroupChanges(d, group)[i], column_order)]

\* SchemaDiff.to_sql: the first exception of a change, in rendering order,
\* leaves the method; otherwise the groups that hold changes are joined
SchemaDiff_to_sql(d, column_order) ==
    LET kept == SelectSeq(Groups, LAMBDA g : Len(GroupChanges(d, g)) > 0)
        statements == [i \in 1..Len(kept) |->
                          GroupStatements(d, kept[i], column_order)]
        flat == IF Len(kept) = 0 THEN <<>>
                ELSE IF Len(kept) = 1 THEN statements[1]
                ELSE IF Len(kept) = 2 THEN statements[1] \o statements[2]
                ELSE statements[1] \o statements[2] \o statements[3]
        failures == {i \in 1..Len(flat) : Raised(flat[i])}
    IN  IF failures # {}
        THEN flat[CHOOSE i \in failures : \A j \in failures : i <= j]
        ELSE Join(<<"\n", "\n">>,
                  [i \in 1..Len(kept) |->
                      Join(<<"\n", "\n">>, statements[i])])

(***************************************************************************)
(* __main__.py: the advisory checklist                                     *)
(***************************************************************************)
\* contains_type(cls, it)
contains_type(cls, changes) == \E i \in 1..Len(changes) : changes[i].cls = cls

has_new_and_deleted_tables(d) ==
    contains_type("NewTable", d.new) /\ contains_type("DeletedTable", d.deleted)

has_new_and_deleted_columns(d) ==
    contains_type("NewColumn", d.new)
    /\ contains_type("DeletedColumn", d.deleted)

column_will_be_dropped(d) ==
    contains_type("ModifiedColumn", d.modified)
    \/ contains_type("DeletedColumn", d.deleted)

\* the substring tests of valid_column_default on the constraint clauses
\* that the generated columns carry
MentionsNotNull(c) == c \in {"NOT NULL"}

MentionsDefault(c) == c \in {"DEFAULT 0", "DEFAULT NULL"}

MentionsDefaultNull(c) == c \in {"DEFAULT NULL"}

valid_column_default(column) ==
    LET nullable == \A c \in column.constraints : ~ MentionsNotNull(c)
        null_default ==
            \A c \in column.constraints :
                ~ MentionsDefault(c) \/ MentionsDefaultNull(c)
    IN  nullable \/ ~ null_default

all_column_changes_have_valid_defaults(d) ==
    /\ \A i \in 1..Len(d.new) :
          d.new[i].cls = "NewColumn" => valid_column_default(d.new[i].column)
    /\ \A i \in 1..Len(d.modified) :
          d.modified[i].cls = "ModifiedColumn"
              => valid_column_default(d.modified[i].new)

\* f"{i + 1:>2d}." for the three possible entries
ItemNumber == <<" 1.", " 2.", " 3.">>

\* sql_diff_checklist; each message is cut to its opening words
sql_diff_checklist(d) ==
    LET checklist ==
            (IF has_new_and_deleted_tables(d) \/ has_new_and_deleted_columns(d)
             THEN <<"Any new tables or columns were not intended to be renames">>
             ELSE <<>>)
            \o (IF column_will_be_dropped(d)
                THEN <<"Any DROP COLUMN statements are not referenced">>
                ELSE <<>>)
            \o (IF ~ all_column_changes_have_valid_defaults(d)
                THEN <<"All ADD COLUMN statements have a valid default value.">>
                ELSE <<>>)
    IN  sql_comment(Join(<<"\n">>,
            [i \in 1..Len(checklist) |-> <<ItemNumber[i], " ", checklist[i]>>]))

(***************************************************************************)
(* __main__.py: what main writes to standard output                        *)
(***************************************************************************)
\* print(text): the text and the line end
PrintLine(out, text) == out \o text \o <<"\n">>

\* the last print of main, called with end=""
Script(sql) ==
    <<"PRAGMA foreign_keys = ", "off", ";", "\n",
      "BEGIN TRANSACTION;", "\n",
      "\n">>
    \o sql \o
    <<"\n",
      "\n",
      "-- Please verify foreign keys before committing!", "\n",
      "-- The following pragma should return 0 rows:", "\n",
      "PRAGMA foreign_key_check;", "\n",
      "\n",
      "COMMIT;", "\n">>

\* Mutant of MainOutput: the checklist and the head of the script are
\* printed before diff.to_sql() is called.
MainOutput_PrintsBeforeRendering(out, d, sql) ==
    IF total_changes(d) = 0
    THEN PrintLine(out, <<"-- No differences found">>)
    ELSE LET checklist == sql_diff_checklist(d)
             noted ==
                IF Len(checklist) > 0
                THEN PrintLine(
                        PrintLine(out,
                            <<"-- Before running the following script, please make sure that:">>),
                        checklist)
                ELSE out
             head == noted \o <<"PRAGMA foreign_keys = ", "off", ";", "\n",
                                "BEGIN TRANSACTION;", "\n">>
         IN  IF Raised(sql) THEN head ELSE noted \o Script(sql)

\* main from the line after schema_diff returned: the text on standard
\* output when main ends, given what diff.to_sql() gave
MainOutput(out, d, sql) ==
    IF total_changes(d) = 0
    THEN PrintLine(out, <<"-- No differences found">>)
    ELSE IF Raised(sql) THEN out
    ELSE LET checklist == sql_diff_checklist(d)
             noted ==
                IF Len(checklist) > 0
                THEN PrintLine(
                        PrintLine(out,
                            <<"-- Before running the following script, please make sure that:">>),
                        checklist)
                ELSE out
         IN  noted \o Script(sql)

(***************************************************************************)
(* The schemas that are diffed.  A schema is what load_schema builds from  *)
(* a database: every table carries the text it was parsed from, the key of *)
(* a column is its raw name, an index or trigger belongs to a table of its *)
(* schema and a view is catalogued under its own name.                     *)
(***************************************************************************)
\* schema.py: the dict comprehensions of load_schema key each entry by name
ByName(items) == [i \in 1..Len(items) |-> <<items[i].name, items[i]>>]

\* parser.py: TableTransformer.columns keys each column by its raw name
ByRawName(cols) == [i \in 1..Len(cols) |-> <<cols[i].raw_name, cols[i]>>]

\* the text of a CREATE TABLE statement that the parser turns into these
\* columns, table constraints and table options
TableSql(raw_name, cols, constraints, options) ==
    <<"CREATE TABLE ">> \o raw_name \o <<" (">>
    \o Join(<<", ">>,
            [i \in 1..Len(cols) |-> Column_to_sql(cols[i])]
            \o [i \in 1..Cardinality(constraints) |->
                   <<SetToSeq(constraints)[i]>>])
    \o <<")">>
    \o Join(<<", ">>,
            [i \in 1..Cardinality(options) |->
                <<" ", SetToSeq(options)[i]>>])

\* schema.py: _load_table stamps the catalogue name and the source text on
\* the table that the parser built
LoadedTable(name, cols, constraints, options) ==
    Table(name, name, ByRawName(cols), constraints, options,
          TableSql(name, cols, constraints, options))

foo == <<"f", "o", "o">>
Foo == <<"F", "o", "o">>
t == <<"t">>
bar == <<"b", "a", "r">>
baz == <<"b", "a", "z">>
qux == <<"q", "u", "x">>
x == <<"x">>
y == <<"y">>
z == <<"z">>

ColumnNames == {x, y, z}

\* the columns a generated table is built from
AllColumns ==
    {Column(x, "INTEGER", {}), Column(x, "TEXT", {}),
     Column(y, "TEXT", {}), Column(y, "TEXT", {"NOT NULL"}),
     Column(z, "BLOB", {})}

\* the column lists of at most MaxCols columns with distinct names
ColumnLists ==
    {cols \in UNION {[1..n -> AllColumns] : n \in 1..MaxCols} :
        \A i, j \in 1..Len(cols) :
            i # j => cols[i].raw_name # cols[j].raw_name}

\* table-level constraints and options of a generated table
TableAttrs == {<<{}, {}>>, <<{"CHECK (1)"}, {}>>, <<{}, {"STRICT"}>>}

\* the versions of the table t
TVersions ==
    {LoadedTable(t, cols, a[1], a[2]) : cols \in ColumnLists, a \in TableAttrs}

\* zero or one entry
Maybe(S) == {<<>>} \cup {<<e>> : e \in S}

\* schemas of one table at most: t in any version, or absent
TableSchemas ==
    {Schema(ByName(tv), <<>>, <<>>, <<>>) : tv \in Maybe(TVersions)}

\* the old schemas of the runs on tables: every column of t as first
\* declared (x INTEGER, y TEXT, z BLOB), in any order and with any
\* table constraints and options
OldTableSchemas ==
    {s \in TableSchemas :
        \A i \in 1..Len(s.tables) :
            \A j \in 1..Len(s.tables[i][2].columns) :
                s.tables[i][2].columns[j][2]
                    \in {Column(x, "INTEGER", {}), Column(y, "TEXT", {}),
                         Column(z, "BLOB", {})}}

\* the source text of an index, view or trigger; the number tells the
\* versions of one object apart
VersionText == <<" > 1", " > 2", " > 3", " > 4">>

IndexOn(name, written, tbl_name, v) ==
    Object("Index", name,
           <<"CREATE INDEX ">> \o name \o <<" ON ">> \o written
           \o <<" (x) WHERE x", VersionText[v]>>,
           tbl_name)

ViewOf(name, v) ==
    Object("View", name,
           <<"CREATE VIEW ">> \o name
           \o <<" (x) AS SELECT x FROM foo WHERE x", VersionText[v]>>,
           name)

TriggerOn(name, written) ==
    Object("Trigger", name,
           <<"CREATE TRIGGER ">> \o name \o <<" AFTER INSERT ON ">> \o written
           \o <<" BEGIN DELETE FROM foo; END">>,
           written)

\* schemas with indexes, views and triggers: the table foo (spelt foo or
\* Foo, with x untyped or TEXT), an index bar on it, a trigger baz on it, a
\* view baz, and the table t with its index qux.  SQLite keeps the
\* statement as written and catalogues an index under the name its table
\* was created with, a trigger under the table name as written.
FooVersions ==
    {LoadedTable(foo, <<Column(x, NoneType, {})>>, {}, {}),
     LoadedTable(foo, <<Column(x, "TEXT", {})>>, {}, {}),
     LoadedTable(Foo, <<Column(x, NoneType, {})>>, {}, {})}

TSmallVersions ==
    {LoadedTable(t, <<Column(x, "INTEGER", {})>>, {}, {}),
     LoadedTable(t, <<Column(x, "TEXT", {})>>, {}, {})}

ObjectSchemasWith(fv) ==
    {Schema(ByName(<<fv>> \o tv),
            ByName(iv \o (IF Len(tv) > 0 THEN <<IndexOn(qux, t, t, 1)>>
                          ELSE <<>>)),
            ByName(vv), ByName(gv)) :
        tv \in Maybe(TSmallVersions),
        iv \in Maybe({IndexOn(bar, foo, fv.name, v) : v \in 1..MaxVersions}),
        vv \in Maybe({ViewOf(baz, v) : v \in 1..MaxVersions}),
        gv \in Maybe({TriggerOn(baz, foo)})}

ObjectSchemas == UNION {ObjectSchemasWith(fv) : fv \in FooVersions}

\* the old schemas of the runs with objects: the tables foo and t, the
\* index bar and the view baz as first created
OldObjectSchemas ==
    {s \in ObjectSchemas :
        /\ DictHas(s.tables, foo)
        /\ DictGet(s.tables, foo).columns[1][2].type = NoneType
        /\ (DictHas(s.tables, t)
               => DictGet(s.tables, t).columns[1][2].type = "INTEGER")
        /\ (DictHas(s.indices, bar)
               => DictGet(s.indices, bar) = IndexOn(bar, foo, foo, 1))
        /\ (DictHas(s.views, baz)
               => DictGet(s.views, baz) = ViewOf(baz, 1))}

(***************************************************************************)
(* Loading a schema: schema.py load_schema and _load_table, parser.py      *)
(* create_table_parser and TableTransformer.  A call either returns a      *)
(* value or raises; parsers counts the lark.Lark objects built so far.     *)
(***************************************************************************)
\* a call that returned value, having built parsers lark.Lark objects
Returns(value, built) == [error |-> "None", value |-> value, parsers |-> built]

\* a call that raised error
Raises(error, built) == [error |-> error, value |-> <<>>, parsers |-> built]

\* one row of sqlite_schema as the query of load_schema selects it
Row(name, tbl_name, sql) == [name |-> name, tbl_name |-> tbl_name, sql |-> sql]

\* what the four queries of load_schema fetch from one database
Catalogue(tables, indices, views, triggers) ==
    [tables |-> tables, indices |-> indices, views |-> views,
     triggers |-> triggers]

\* parser.py: create_table_parser builds a new lark.Lark on every call;
\* only the grammar text read by get_table_grammar is cached
create_table_parser(built) == built + 1

\* TableTransformer.create_table: the name that _load_table overwrites
MissingTrueName == <<"missing true name">>

\* the statements of the language of the table grammar that the model
\* generates, each as the table that TableTransformer builds from it
GrammarTables == TVersions \cup FooVersions \cup TSmallVersions

\* the grammar skips the white space between two tokens: the text without
\* its tokens of white space
Unspaced(sql) == SelectSeq(sql, LAMBDA tok : tok # " ")

\* every generated statement, without its white space, with its table
GrammarIndex == {<<Unspaced(tab.sql), tab>> : tab \in GrammarTables}

\* create_table_parser().parse(sql), then
\* TableTransformer().transform(tree).children: the tables of the text, or
\* the exception of lark for a text outside the grammar
ParseTables(sql, built) ==
    LET text == Unspaced(sql)
        found == {e \in GrammarIndex : e[1] = text}
    IN  IF found = {} THEN Raises("UnexpectedInput", built)
        ELSE LET tab == (CHOOSE e \in found : TRUE)[2]
             IN  Returns(<<Table(MissingTrueName, tab.raw_name, tab.columns,
                                 tab.constraints, tab.options, NoneText)>>,
                         built)

\* schema.py: _load_table
_load_table(name, sql, built) ==
    LET tables == ParseTables(sql, create_table_parser(built))
    IN  IF tables.error # "None" THEN tables
        ELSE IF Len(tables.value) # 1
        THEN Raises("ValueError", tables.parsers)
        ELSE Returns([tables.value[1] EXCEPT !.name = name, !.sql = sql],
                     tables.parsers)

\* schema.py: Object.__post_init__ on the object that a row is built into
Object_post_init(o, built) ==
    IF o.sql = NoneText THEN Raises("TypeError", built)
    ELSE Returns(o, built)

\* a comprehension of load_schema that has built the entries before and
\* goes on with the entry that loading one more row gave: the exception of
\* the row ends it
Entry(before, name, loaded) ==
    IF before.error # "None" THEN before
    ELSE IF loaded.error # "None" THEN loaded
    ELSE Returns(Append(before.value, <<name, loaded.value>>), loaded.parsers)

\* the dict comprehension of load_schema over the first n table rows
RECURSIVE LoadTables(_, _, _)
LoadTables(rows, n, built) ==
    IF n = 0 THEN Returns(<<>>, built)
    ELSE Entry(LoadTables(rows, n - 1, built), rows[n].name,
               IF LoadTables(rows, n - 1, built).error # "None"
               THEN LoadTables(rows, n - 1, built)
               ELSE _load_table(rows[n].name, rows[n].sql,
                                LoadTables(rows, n - 1, built).parsers))

\* the dict comprehensions of load_schema over the first n rows of one
\* object type
RECURSIVE LoadObjects(_, _, _, _)
LoadObjects(cls, rows, n, built) ==
    IF n = 0 THEN Returns(<<>>, built)
    ELSE Entry(LoadObjects(cls, rows, n - 1, built), rows[n].name,
               Object_post_init(Object(cls, rows[n].name, rows[n].sql,
                                       rows[n].tbl_name),
                                built))

\* schema.py: load_schema; the arguments of Schema(...) are evaluated in
\* the order tables, indices, views, triggers
load_schema(conn, built) ==
    LET tables == LoadTables(conn.tables, Len(conn.tables), built)
        indices == LoadObjects("Index", conn.indices, Len(conn.indices),
                               tables.parsers)
        views == LoadObjects("View", conn.views, Len(conn.views),
                             tables.parsers)
        triggers == LoadObjects("Trigger", conn.triggers, Len(conn.triggers),
                                tables.parsers)
    IN  IF tables.error # "None" THEN tables
        ELSE IF indices.error # "None" THEN indices
        ELSE IF views.error # "None" THEN views
        ELSE IF triggers.error # "None" THEN triggers
        ELSE Returns(Schema(tables.value, indices.value, views.value,
                            triggers.value),
                     tables.parsers)

\* the catalogue of a database whose schema loads as s
CatalogueOf(s) ==
    LET Rows(d) == [i \in 1..Len(d) |->
                       Row(d[i][2].name, d[i][2].tbl_name, d[i][2].sql)]
    IN  Catalogue([i \in 1..Len(s.tables) |->
                      Row(s.tables[i][2].name, s.tables[i][2].name,
                          s.tables[i][2].sql)],
                  Rows(s.indices), Rows(s.views), Rows(s.triggers))

(***************************************************************************)
(* Catalogues at the edge of what load_schema and the rendering accept:    *)
(* SQLite catalogues a virtual table with type 'table', and a database     *)
(* written with PRAGMA writable_schema can hold a statement spaced unlike  *)
(* the one SQLite stores, or a row without a statement.  The index on t    *)
(* has a name that is no plain identifier.                                 *)
(***************************************************************************)
v == <<"v">>

VirtualTable ==
    Row(v, v, <<"CREATE VIRTUAL TABLE ", "v", " USING fts5(x)">>)

\* the statement with two spaces between CREATE TABLE and the name
Respaced(sql) == <<sql[1], " ">> \o Tail(sql)

EdgeTableRows ==
    {Row(tv.name, tv.name, tv.sql) : tv \in TSmallVersions}
    \cup {Row(tv.name, tv.name, Respaced(tv.sql)) : tv \in TSmallVersions}

\* a name with a space, a reserved word, a name that starts with a digit
\* and holds a double quote
EdgeIndexNames ==
    {<<"a", " ", "b">>, <<"o", "r", "d", "e", "r">>, <<"1", "\"", "a">>}

EdgeIndex(name) ==
    Row(name, t,
        <<"CREATE INDEX ">> \o sql_identifier(name, FALSE)
        \o <<" ON ", "t", " (x)">>)

NullIndex == Row(qux, t, NoneText)

EdgeCatalogues ==
    {Catalogue(<<tr>> \o vr, ir, <<>>, <<>>) :
        tr \in EdgeTableRows,
        vr \in Maybe({VirtualTable}),
        ir \in Maybe({EdgeIndex(n) : n \in EdgeIndexNames} \cup {NullIndex})}

\* the old databases of these runs: t as first declared
OldEdgeCatalogues ==
    {c \in EdgeCatalogues :
        Unspaced(c.tables[1].sql)
            = Unspaced(LoadedTable(t, <<Column(x, "INTEGER", {})>>, {}, {}).sql)}

(***************************************************************************)
(* The run: main loads the old and the new schema; schema_diff runs its    *)
(* four diffs and its three restoration passes, then main prints.          *)
(***************************************************************************)
ObjectTypes == {"index", "view", "trigger"}

\* the dict of a schema that holds the objects of a type
ObjectsOf(schema, type) ==
    CASE type = "index" -> schema.indices
      [] type = "view" -> schema.views
      [] type = "trigger" -> schema.triggers

\* the position before the diff of a type and before its restoration pass,
\* and the positions after them
DiffPc(type) ==
    CASE type = "index" -> "index_diff"
      [] type = "view" -> "view_diff"
      [] type = "trigger" -> "trigger_diff"

RefsPc(type) ==
    CASE type = "index" -> "index_refs"
      [] type = "view" -> "view_refs"
      [] type = "trigger" -> "trigger_refs"

AfterDiff(type) ==
    CASE type = "index" -> "view_diff"
      [] type = "view" -> "trigger_diff"
      [] type = "trigger" -> "index_refs"

AfterRefs(type) ==
    CASE type = "index" -> "view_refs"
      [] type = "view" -> "trigger_refs"
      [] type = "trigger" -> "returned"

\* new_schema and old_schema before load_schema has returned them
NotLoaded == Schema(<<>>, <<>>, <<>>, <<>>)

Init ==
    /\ \/ /\ conn_new \in {CatalogueOf(s) : s \in TableSchemas}
          /\ conn_old \in {CatalogueOf(s) : s \in OldTableSchemas}
       \/ /\ conn_new \in {CatalogueOf(s) : s \in ObjectSchemas}
          /\ conn_old \in {CatalogueOf(s) : s \in OldObjectSchemas}
       \/ /\ conn_new \in EdgeCatalogues
          /\ conn_old \in OldEdgeCatalogues
    /\ new = NotLoaded
    /\ old = NotLoaded
    /\ diff = EmptyDiff
    /\ pc = "load_old"
    /\ stdout = <<>>
    /\ exc = "None"
    /\ parsers = 0

\* main: old_schema = load_schema(conn) on args.conn_old
LoadOld ==
    /\ pc = "load_old"
    /\ \E loaded \in {load_schema(conn_old, parsers)} :
           /\ old' = IF loaded.error = "None" THEN loaded.value ELSE old
           /\ pc' = IF loaded.error = "None" THEN "load_new"
                    ELSE "load_failed"
           /\ exc' = loaded.error
           /\ parsers' = loaded.parsers
    /\ UNCHANGED <<conn_new, conn_old, new, diff, stdout>>

\* main: new_schema = load_schema(conn) on args.conn_new
LoadNew ==
    /\ pc = "load_new"
    /\ \E loaded \in {load_schema(conn_new, parsers)} :
           /\ new' = IF loaded.error = "None" THEN loaded.value ELSE new
           /\ pc' = IF loaded.error = "None" THEN "table_diff"
                    ELSE "load_failed"
           /\ exc' = loaded.error
           /\ parsers' = loaded.parsers
    /\ UNCHANGED <<conn_new, conn_old, old, diff, stdout>>

\* schema_diff: diff.extend(_table_diff(new.tables, old.tables))
TableDiff ==
    /\ pc = "table_diff"
    /\ \E added \in Perms(KeySet(new.tables) \ KeySet(old.tables)),
          common \in Perms(KeySet(new.tables) \cap KeySet(old.tables)),
          removed \in Perms(KeySet(old.tables) \ KeySet(new.tables)) :
          diff' = extend(diff, _table_diff(new.tables, old.tables,
                                           added, common, removed))
    /\ new' = [new EXCEPT !.tables = _table_diff_leaves(new.tables,
                                                        old.tables)[1]]
    /\ old' = [old EXCEPT !.tables = _table_diff_leaves(new.tables,
                                                        old.tables)[2]]
    /\ pc' = "index_diff"
    /\ UNCHANGED <<conn_new, conn_old, stdout, exc, parsers>>

\* schema_diff: diff.extend(_object_diff(type, ...)) for the three types
ObjectDiff ==
    \E type \in ObjectTypes :
        /\ pc = DiffPc(type)
        /\ LET new_o == ObjectsOf(new, type)
               old_o == ObjectsOf(old, type)
           IN  \E added \in Perms(KeySet(new_o) \ KeySet(old_o)),
                  common \in Perms(KeySet(new_o) \cap KeySet(old_o)),
                  removed \in Perms(KeySet(old_o) \ KeySet(new_o)) :
                  diff' = extend(diff, _object_diff(type, new_o, old_o,
                                                    added, common, removed))
        /\ pc' = AfterDiff(type)
        /\ UNCHANGED <<conn_new, conn_old, new, old, stdout, exc, parsers>>

\* schema_diff: _add_table_references(diff, tuple(old.<type>.values()))
AddTableReferences ==
    \E type \in ObjectTypes :
        /\ pc = RefsPc(type)
        /\ diff' = _add_table_references(diff,
                                         DictValues(ObjectsOf(old, type)))
        /\ pc' = AfterRefs(type)
        /\ UNCHANGED <<conn_new, conn_old, new, old, stdout, exc, parsers>>

\* main, from the return of schema_diff to its end
Main ==
    /\ pc = "returned"
    /\ \E column_order \in Perms(ColumnNames) :
          LET sql == IF total_changes(diff) = 0 THEN <<>>
                     ELSE SchemaDiff_to_sql(diff, column_order)
          IN  /\ stdout' = MainOutput(stdout, diff, sql)
              /\ pc' = IF Raised(sql) THEN "failed" ELSE "done"
              /\ exc' = IF Raised(sql) THEN sql[2] ELSE "None"
    /\ UNCHANGED <<conn_new, conn_old, new, old, diff, parsers>>

Next ==
    LoadOld \/ LoadNew \/ TableDiff \/ ObjectDiff \/ AddTableReferences \/ Main

Spec == Init /\ [][Next]_vars

(***************************************************************************)
(* The properties.                                                         *)
(***************************************************************************)
\* schema_diff has returned
Returned == pc \in {"returned", "done", "failed"}

\* _table_diff has run
TablesDiffed ==
    pc \notin {"load_old", "load_new", "load_failed", "table_diff"}

\* the three _object_diff calls have run
ObjectsDiffed ==
    pc \in {"index_refs", "view_refs", "trigger_refs", "returned", "done",
            "failed"}

AllChanges(d) == d.new \o d.modified \o d.deleted

CommonTableNames == KeySet(new.tables) \cap KeySet(old.tables)

\* the positions of diff.modified that hold a ModifiedTable for a table
ModifiedTablesFor(name) ==
    {i \in 1..Len(diff.modified) :
        /\ diff.modified[i].cls = "ModifiedTable"
        /\ diff.modified[i].new.name = name}

\* the changes of one class in a list that are about one table
ColumnChangesFor(changes, cls, name) ==
    SelectSeq(changes, LAMBDA c : c.cls = cls /\ c.table.name = name)

\* an index, view or trigger is in the diff as modified or deleted
InDiffAs(type, name) ==
    \/ \E i \in 1..Len(diff.modified) :
          /\ diff.modified[i].cls = "ModifiedObject"
          /\ diff.modified[i].type = type
          /\ diff.modified[i].name = name
    \/ \E i \in 1..Len(diff.deleted) :
          /\ diff.deleted[i].cls = "DeletedObject"
          /\ diff.deleted[i].type = type
          /\ diff.deleted[i].name = name

\* the objects of the old schema, of one type, that a table owns
OwnedObjects(type, table_name) ==
    {o \in {ObjectsOf(old, type)[i][2] : i \in 1..Len(ObjectsOf(old, type))} :
        o.tbl_name = table_name}

\* the restoration of an object is attached to a ModifiedTable
HasRestoration(c, o) ==
    \E j \in 1..Len(c.references) : c.references[j] = ReferencedObject(o.sql)

\* C1: when schema_diff has returned, every ModifiedTable carries the
\* restoration of each index, view and trigger of the old schema that its
\* table owns, unless the diff holds a ModifiedObject or DeletedObject of
\* the same kind and the same name; a modified or deleted object of another
\* kind with that name does not suppress it, and nothing else is attached.
C1_ReferenceRestoration ==
    Returned =>
        \A i \in 1..Len(diff.modified) :
            diff.modified[i].cls = "ModifiedTable" =>
                /\ \A type \in ObjectTypes :
                      \A o \in OwnedObjects(type, diff.modified[i].new.name) :
                          HasRestoration(diff.modified[i], o)
                              <=> ~ InDiffAs(type, o.name)
                /\ Len(diff.modified[i].references)
                      = Cardinality(
                            {<<type, o>> \in
                                UNION {{<<ty, ob>> :
                                          ob \in OwnedObjects(ty,
                                              diff.modified[i].new.name)} :
                                       ty \in ObjectTypes} :
                                ~ InDiffAs(type, o.name)})

\* the rules of the table-level decision, for a table in both schemas
ConstraintsDiffer(name) ==
    DictGet(new.tables, name).constraints
        # DictGet(old.tables, name).constraints

OptionsDiffer(name) ==
    DictGet(new.tables, name).options # DictGet(old.tables, name).options

SomeColumnUnequal(name) ==
    LET nc == DictGet(new.tables, name).columns
        oc == DictGet(old.tables, name).columns
    IN  \E n \in KeySet(nc) \cap KeySet(oc) : DictGet(nc, n) # DictGet(oc, n)

\* the old order without the columns only in old, then the columns only in
\* new in the order of new, is not the order of new
OrderDiffers(name) ==
    LET nn == DictKeys(DictGet(new.tables, name).columns)
        on == DictKeys(DictGet(old.tables, name).columns)
        in_new(n) == \E i \in 1..Len(nn) : nn[i] = n
        in_old(n) == \E i \in 1..Len(on) : on[i] = n
    IN  SelectSeq(on, in_new) \o SelectSeq(nn, LAMBDA n : ~ in_old(n)) # nn

MustRecreate(name) ==
    \/ ConstraintsDiffer(name)
    \/ OptionsDiffer(name)
    \/ SomeColumnUnequal(name)
    \/ OrderDiffers(name)

\* C2: the diff never holds a ModifiedColumn; a table with a column that is
\* in both versions and unequal is in the diff as exactly one
\* ModifiedTable, and rendering never raises the TypeError of
\* ModifiedColumn.to_sql.
C2_NoStandaloneModifiedColumn ==
    /\ \A i \in 1..Len(AllChanges(diff)) :
          AllChanges(diff)[i].cls # "ModifiedColumn"
    /\ TablesDiffed =>
          \A name \in CommonTableNames :
              SomeColumnUnequal(name)
                  => Cardinality(ModifiedTablesFor(name)) = 1
    /\ ~ (pc = "failed" /\ exc = "TypeError")

\* C2 witness: old t(x INTEGER), new t(x TEXT), recreated
C2_Witness ==
    /\ pc = "done"
    /\ \E name \in CommonTableNames :
          /\ SomeColumnUnequal(name)
          /\ ~ ConstraintsDiffer(name) /\ ~ OptionsDiffer(name)
          /\ ~ OrderDiffers(name)
          /\ Cardinality(ModifiedTablesFor(name)) = 1

\* C3: a table in both schemas is in the diff as exactly one ModifiedTable
\* when its constraints differ, its options differ, a column in both is
\* unequal or the column order differs, and as none otherwise.
C3_TableDecision ==
    TablesDiffed =>
        \A name \in CommonTableNames :
            Cardinality(ModifiedTablesFor(name))
                = IF MustRecreate(name) THEN 1 ELSE 0

\* C3 witness: old t(x, y), new t(y, x) with equal columns, constraints and
\* options: recreated for the order alone, with no column change
C3_Witness ==
    /\ pc = "returned"
    /\ \E name \in CommonTableNames :
          /\ ~ ConstraintsDiffer(name) /\ ~ OptionsDiffer(name)
          /\ ~ SomeColumnUnequal(name)
          /\ KeySet(DictGet(new.tables, name).columns)
                = KeySet(DictGet(old.tables, name).columns)
          /\ OrderDiffers(name)
          /\ Cardinality(ModifiedTablesFor(name)) = 1
          /\ ColumnChangesFor(diff.new, "NewColumn", name) = <<>>
          /\ ColumnChangesFor(diff.deleted, "DeletedColumn", name) = <<>>

\* the columns of a table version that the other version lacks, in order
ColumnsOnlyIn(mine, other) ==
    SelectSeq(DictValues(mine), LAMBDA c : ~ DictHas(other, c.raw_name))

\* C4: for a table in both schemas the diff holds NewColumn or
\* DeletedColumn entries only when it holds no ModifiedTable for it; when
\* no recreation rule applies they are one NewColumn per column only in
\* new, in the order of new, and one DeletedColumn per column only in old,
\* in the order of old.
C4_IncrementalPath ==
    TablesDiffed =>
        \A name \in CommonTableNames :
            LET added == ColumnChangesFor(diff.new, "NewColumn", name)
                removed ==
                    ColumnChangesFor(diff.deleted, "DeletedColumn", name)
                nc == DictGet(new.tables, name).columns
                oc == DictGet(old.tables, name).columns
            IN  /\ ModifiedTablesFor(name) # {}
                      => added = <<>> /\ removed = <<>>
                /\ ~ MustRecreate(name) =>
                      /\ ModifiedTablesFor(name) = {}
                      /\ [i \in 1..Len(added) |-> added[i].column]
                            = ColumnsOnlyIn(nc, oc)
                      /\ [i \in 1..Len(removed) |-> removed[i].column]
                            = ColumnsOnlyIn(oc, nc)

\* C4 witness: old t(x INTEGER), new t(x INTEGER, y TEXT): one NewColumn
\* for y, no ModifiedTable
C4_Witness ==
    /\ pc = "returned"
    /\ DictHas(new.tables, t) /\ DictHas(old.tables, t)
    /\ DictValues(DictGet(old.tables, t).columns)
          = <<Column(x, "INTEGER", {})>>
    /\ DictValues(DictGet(new.tables, t).columns)
          = <<Column(x, "INTEGER", {}), Column(y, "TEXT", {})>>
    /\ ModifiedTablesFor(t) = {}
    /\ Len(diff.new) = 1
    /\ diff.new[1].cls = "NewColumn"
    /\ diff.new[1].column.raw_name = y

\* C5: the diff of a schema against an equal schema is empty: no change in
\* new, modified or deleted, total_changes 0.
C5_Identity ==
    (new = old /\ Returned) =>
        /\ diff.new = <<>> /\ diff.modified = <<>> /\ diff.deleted = <<>>
        /\ total_changes(diff) = 0

\* C5 witness: two equal schemas of two tables, two indexes, a view and a
\* trigger have been diffed
C5_Witness ==
    /\ new = old
    /\ pc = "returned"
    /\ Len(new.tables) = 2 /\ Len(new.indices) = 2
    /\ Len(new.views) = 1 /\ Len(new.triggers) = 1
    /\ total_changes(diff) = 0

\* the number of entries of the diff for one index, view or trigger
NewObjectCount(o) ==
    Cardinality({i \in 1..Len(diff.new) :
        diff.new[i].cls = "NewObject" /\ diff.new[i].sql = o.sql})

ModifiedObjectCount(type, name) ==
    Cardinality({i \in 1..Len(diff.modified) :
        /\ diff.modified[i].cls = "ModifiedObject"
        /\ diff.modified[i].type = type
        /\ diff.modified[i].name = name})

DeletedObjectCount(type, name) ==
    Cardinality({i \in 1..Len(diff.deleted) :
        /\ diff.deleted[i].cls = "DeletedObject"
        /\ diff.deleted[i].type = type
        /\ diff.deleted[i].name = name})

\* the entries of the diff for the names of one type that are in one
\* schema only
OneSidedObjects(type) ==
    LET new_o == ObjectsOf(new, type)
        old_o == ObjectsOf(old, type)
    IN  /\ \A name \in KeySet(new_o) \ KeySet(old_o) :
              /\ NewObjectCount(DictGet(new_o, name)) = 1
              /\ ModifiedObjectCount(type, name) = 0
              /\ DeletedObjectCount(type, name) = 0
        /\ \A name \in KeySet(old_o) \ KeySet(new_o) :
              /\ DeletedObjectCount(type, name) = 1
              /\ ModifiedObjectCount(type, name) = 0
              /\ NewObjectCount(DictGet(old_o, name)) = 0

\* the entries of the diff for the names of one type that are in both
\* schemas, when differs(n, o) is what makes two objects count as changed
TwoSidedObjects(type, differs(_, _)) ==
    LET new_o == ObjectsOf(new, type)
        old_o == ObjectsOf(old, type)
    IN  \A name \in KeySet(new_o) \cap KeySet(old_o) :
            /\ ModifiedObjectCount(type, name)
                  = IF differs(DictGet(new_o, name), DictGet(old_o, name))
                    THEN 1 ELSE 0
            /\ NewObjectCount(DictGet(new_o, name)) = 0
            /\ DeletedObjectCount(type, name) = 0

TextDiffers(n, o) == n.sql # o.sql

TextOrOwnerDiffers(n, o) == n.sql # o.sql \/ n.tbl_name # o.tbl_name

\* C6 as stated: per kind and name, a name only in new gives one NewObject,
\* a name only in old one DeletedObject, a name in both one ModifiedObject
\* exactly when the two source texts differ, and no entry otherwise.
C6_Original ==
    ObjectsDiffed =>
        \A type \in ObjectTypes :
            OneSidedObjects(type) /\ TwoSidedObjects(type, TextDiffers)

\* C6 as amended: per kind and name, a name only in new gives one
\* NewObject, a name only in old one DeletedObject, a name in both one
\* ModifiedObject exactly when the two source texts or the two
\* owning-table names differ, and no entry otherwise.
C6_ObjectDiff ==
    ObjectsDiffed =>
        \A type \in ObjectTypes :
            OneSidedObjects(type) /\ TwoSidedObjects(type, TextOrOwnerDiffers)

\* C6 witness: an index with the same text under another owning-table name
\* is reported as modified, next to a new and a deleted object
C6_Witness ==
    /\ pc = "returned"
    /\ \E type \in ObjectTypes :
          \E name \in KeySet(ObjectsOf(new, type))
                        \cap KeySet(ObjectsOf(old, type)) :
              /\ DictGet(ObjectsOf(new, type), name).sql
                    = DictGet(ObjectsOf(old, type), name).sql
              /\ DictGet(ObjectsOf(new, type), name).tbl_name
                    # DictGet(ObjectsOf(old, type), name).tbl_name
              /\ ModifiedObjectCount(type, name) = 1
    /\ \E i \in 1..Len(diff.new) : diff.new[i].cls = "NewObject"
    /\ \E i \in 1..Len(diff.deleted) : diff.deleted[i].cls = "DeletedObject"

\* text occurs in the output
Printed(text) == FindSub(stdout, text) # 0

\* C7: a table in old and not in new gives one DeletedTable, and the
\* script holds its statement DROP TABLE <raw name>;
C7_DeletedTableDrop ==
    /\ TablesDiffed =>
          \A name \in KeySet(old.tables) \ KeySet(new.tables) :
              Cardinality({i \in 1..Len(diff.deleted) :
                  /\ diff.deleted[i].cls = "DeletedTable"
                  /\ diff.deleted[i].table = DictGet(old.tables, name)}) = 1
    /\ pc = "done" =>
          \A i \in 1..Len(diff.deleted) :
              diff.deleted[i].cls = "DeletedTable" =>
                  Printed(<<"\n", "DROP TABLE ">>
                          \o diff.deleted[i].table.raw_name \o <<";", "\n">>)

\* C8: the statement printed for a NewTable or a NewObject is the source
\* text of the new schema followed by ";" and nothing else.
C8_RoundTrip ==
    pc = "done" =>
        \A i \in 1..Len(diff.new) :
            /\ diff.new[i].cls = "NewTable" =>
                  Printed(<<"\n">> \o diff.new[i].table.sql \o <<";", "\n">>)
            /\ diff.new[i].cls = "NewObject" =>
                  Printed(<<"\n">> \o diff.new[i].sql \o <<";", "\n">>)

\* the kind of object a change is about: the table kind for the table and
\* column changes, else index, view or trigger
KindOf(c) ==
    IF c.cls \in {"ModifiedObject", "DeletedObject"} THEN c.type
    ELSE IF c.cls = "NewObject"
    THEN CASE c.sql[1] = "CREATE INDEX " -> "index"
           [] c.sql[1] = "CREATE VIEW " -> "view"
           [] c.sql[1] = "CREATE TRIGGER " -> "trigger"
    ELSE "table"

KindRank(c) ==
    CASE KindOf(c) = "table" -> 0
      [] KindOf(c) = "index" -> 1
      [] KindOf(c) = "view" -> 2
      [] KindOf(c) = "trigger" -> 3

KindsInOrder(changes) ==
    \A i, j \in 1..Len(changes) :
        i < j => KindRank(changes[i]) <= KindRank(changes[j])

\* the buckets in the order the output is to have them
BucketOrder == <<"modified", "deleted", "new">>

BucketOf(g) ==
    CASE g = "modified" -> diff.modified
      [] g = "deleted" -> diff.deleted
      [] g = "new" -> diff.new

BucketBanner(g) ==
    CASE g = "modified" -> <<"-- ", "Modified", " Objects --">>
      [] g = "deleted" -> <<"-- ", "Deleted", " Objects --">>
      [] g = "new" -> <<"-- ", "New", " Objects --">>

\* where the part of the output for a bucket ends: at the next banner, or
\* at the lines that follow the diff
EndOfBucket(k) ==
    LET later == {FindSub(stdout, BucketBanner(BucketOrder[m])) :
                     m \in (k + 1)..3} \ {0}
        closing == FindSub(stdout,
                       <<"-- Please verify foreign keys before committing!">>)
    IN  IF later = {} THEN closing
        ELSE CHOOSE e \in later : \A f \in later : e <= f

\* C9: the script holds the banner of a bucket exactly when the bucket has
\* changes, the banners stand in the order modified, deleted, new, each
\* banner is followed by the statements of its bucket in the order of the
\* list, up to the next banner, and in each list the table and column
\* changes come before the index changes, those before the view changes
\* and those before the trigger changes.
C9_BucketAndKindOrder ==
    /\ Returned =>
          /\ KindsInOrder(diff.modified)
          /\ KindsInOrder(diff.deleted)
          /\ KindsInOrder(diff.new)
    /\ (pc = "done" /\ total_changes(diff) > 0) =>
          /\ \A k \in 1..3 :
                Printed(BucketBanner(BucketOrder[k]))
                    <=> Len(BucketOf(BucketOrder[k])) > 0
          /\ \A k, m \in 1..3 :
                (/\ k < m
                 /\ Printed(BucketBanner(BucketOrder[k]))
                 /\ Printed(BucketBanner(BucketOrder[m])))
                    => FindSub(stdout, BucketBanner(BucketOrder[k]))
                          < FindSub(stdout, BucketBanner(BucketOrder[m]))
          /\ \E column_order \in Perms(ColumnNames) :
                \A k \in 1..3 :
                    LET g == BucketOrder[k]
                    IN  Len(BucketOf(g)) > 0 =>
                            SubSeq(stdout, FindSub(stdout, BucketBanner(g)),
                                   EndOfBucket(k) - 1)
                                = Join(<<"\n", "\n">>,
                                       <<BucketBanner(g)>>
                                       \o [i \in 1..Len(BucketOf(g)) |->
                                              Change_to_sql(BucketOf(g)[i],
                                                            column_order)])
                                  \o <<"\n", "\n">>

\* C9 witness: a script with the three buckets, the modified one holding a
\* table, an index and a view change, the new one a table and an index
C9_Witness ==
    /\ pc = "done"
    /\ Len(diff.modified) >= 3
    /\ \E i, j, k \in 1..Len(diff.modified) :
          /\ KindOf(diff.modified[i]) = "table"
          /\ KindOf(diff.modified[j]) = "index"
          /\ KindOf(diff.modified[k]) = "view"
    /\ \E i \in 1..Len(diff.deleted) : KindOf(diff.deleted[i]) = "trigger"
    /\ \E i, j \in 1..Len(diff.new) :
          /\ diff.new[i].cls = "NewTable"
          /\ diff.new[j].cls = "NewObject"
    /\ Printed(BucketBanner("modified"))
    /\ Printed(BucketBanner("deleted"))
    /\ Printed(BucketBanner("new"))

\* the positions of the output at which a text starts
Occurrences(text) ==
    {i \in 1..(Len(stdout) - Len(text) + 1) :
        SubSeq(stdout, i, i + Len(text) - 1) = text}

\* C10: the script of a non-empty diff is, in this order, the pragma that
\* turns foreign keys off, BEGIN TRANSACTION, the rendered diff, COMMIT and
\* a last foreign_keys pragma after the COMMIT.
C10_ScriptFrame ==
    (pc = "done" /\ total_changes(diff) > 0) =>
        \E column_order \in Perms(ColumnNames) :
            \E p_off \in Occurrences(<<"PRAGMA foreign_keys = ", "off", ";">>),
               p_begin \in Occurrences(<<"BEGIN TRANSACTION;">>),
               p_diff \in Occurrences(SchemaDiff_to_sql(diff, column_order)),
               p_commit \in Occurrences(<<"COMMIT;">>),
               p_restore \in Occurrences(<<"PRAGMA foreign_keys = ">>) :
                /\ p_off < p_begin
                /\ p_begin < p_diff
                /\ p_diff + Len(SchemaDiff_to_sql(diff, column_order))
                      <= p_commit
                /\ p_commit < p_restore

\* C11: a run of main that ends with an exception, be it raised while a
\* schema is loaded (a table statement outside the grammar, an object row
\* without a statement) or while the diff is rendered (a table whose text
\* does not hold its name), has written nothing to standard output.
C11_NoPartialOutput ==
    (pc \in {"load_failed", "failed"} \/ exc # "None") => stdout = <<>>

\* C11 witness: the rendering of a recreated table raised, after a diff
\* with changes was computed, and standard output is empty
C11_Witness ==
    /\ pc = "failed"
    /\ exc = "ValueError"
    /\ \E i \in 1..Len(diff.modified) : diff.modified[i].cls = "ModifiedTable"
    /\ stdout = <<>>

\* the objects of every type of the old schema
OldObjects ==
    UNION {{DictValues(ObjectsOf(old, type))[i] :
               i \in 1..Len(ObjectsOf(old, type))} : type \in ObjectTypes}

C13_SingleParser == parsers <= 1

Digits == {"0", "1", "2", "3", "4", "5", "6", "7", "8", "9"}

\* a letter or an underscore followed only by word characters
PlainIdentifier(s) ==
    /\ Len(s) > 0
    /\ s[1] \in Letters \cup {"_"}
    /\ \A i \in 2..Len(s) : s[i] \in Letters \cup Digits \cup {"_"}

\* keywords of SQLite that cannot stand unquoted as a name
ReservedWords ==
    {<<"o", "r", "d", "e", "r">>, <<"s", "e", "l", "e", "c", "t">>,
     <<"t", "a", "b", "l", "e">>, <<"i", "n", "d", "e", "x">>}

\* a name quoted when needed: bare when the whole of it is a
\* plain identifier that is no reserved word, else in double quotes with
\* every double quote in it doubled
QuotedWhenNeeded(s) ==
    IF PlainIdentifier(s) /\ s \notin ReservedWords THEN s
    ELSE <<"\"">> \o DoubleQuotes(s) \o <<"\"">>

\* C14: the DROP statement of every ModifiedObject and DeletedObject of a
\* printed script names the object bare only when the whole name is a plain
\* identifier and no reserved word, and in double quotes with doubled
\* embedded quotes in every other case.
C14_DropNameQuoting ==
    pc = "done" =>
        /\ \A i \in 1..Len(diff.modified) :
              diff.modified[i].cls = "ModifiedObject" =>
                  Printed(<<"DROP ", Upper(diff.modified[i].type),
                            " IF EXISTS ">>
                          \o QuotedWhenNeeded(diff.modified[i].name)
                          \o <<";">>)
        /\ \A i \in 1..Len(diff.deleted) :
              diff.deleted[i].cls = "DeletedObject" =>
                  Printed(<<"DROP ", Upper(diff.deleted[i].type),
                            " IF EXISTS ">>
                          \o QuotedWhenNeeded(diff.deleted[i].name)
                          \o <<";">>)

\* the position after the last of the texts pieces, when they occur on
\* standard output one after the other from the position from on, each at
\* its first place after the one before; 0 when they do not
RECURSIVE EndOfChain(_, _)
EndOfChain(pieces, from) ==
    IF Len(pieces) = 0 THEN from
    ELSE LET hits == {i \in Occurrences(pieces[1]) : i >= from}
         IN  IF hits = {} THEN 0
             ELSE EndOfChain(Tail(pieces),
                             (CHOOSE i \in hits : \A j \in hits : i <= j)
                                 + Len(pieces[1]))

\* the names of the columns that the old and the new table of c both have
CommonColumnNames(c) == KeySet(c.new.columns) \cap KeySet(c.old.columns)

\* the INSERT ... SELECT of the recreation c with the column list columns
\* as its target list and as its select list
InsertSelect(c, columns) ==
    <<"INSERT INTO ", "sqlitediff_temp", " (">> \o Join(<<", ">>, columns)
    \o <<") SELECT ">> \o Join(<<", ">>, columns) \o <<" FROM ">>
    \o c.old.raw_name \o <<";">>

\* the statements of the recreation c in their required order, the
\* INSERT with the common columns in the order columns
RecreationSteps(c, columns) ==
    << <<"-- Previous table schema for ">> \o c.old.raw_name \o <<":">>,
       sql_comment(c.old.sql \o <<";">>),
       <<"CREATE TABLE ", "sqlitediff_temp">>
           \o SubSeq(c.new.sql, Len(c.new.raw_name) + 2, Len(c.new.sql))
           \o <<";">>,
       InsertSelect(c, columns),
       <<"DROP TABLE ">> \o c.old.raw_name \o <<";">>,
       <<"ALTER TABLE ", "sqlitediff_temp", " RENAME TO ">>
           \o c.new.raw_name \o <<";">> >>
    \o [j \in 1..Len(c.references) |-> c.references[j].sql \o <<";">>]

\* C15: in a printed script the recreation of every ModifiedTable is, in
\* this order: the comment with the old text, the creation of the temporary
\* table from the new text, one INSERT ... SELECT whose two column lists
\* are the same list of exactly the columns in both tables, the DROP of the
\* old table, the rename of the temporary table, and after the rename the
\* restorations of the table; the script holds no other INSERT.
C15_RecreationOrder ==
    pc = "done" =>
        \A i \in 1..Len(diff.modified) :
            diff.modified[i].cls = "ModifiedTable" =>
                /\ \E columns \in Perms(CommonColumnNames(diff.modified[i])) :
                      EndOfChain(RecreationSteps(diff.modified[i], columns), 1)
                          # 0
                /\ Cardinality(
                       UNION {Occurrences(InsertSelect(diff.modified[i],
                                                       columns)) :
                                 columns \in Perms(CommonColumnNames(
                                                       diff.modified[i]))})
                       = 1
                /\ Cardinality(Occurrences(<<"INSERT INTO ">>))
                       = Cardinality({k \in 1..Len(diff.modified) :
                             diff.modified[k].cls = "ModifiedTable"})

\* C15 witness: a script is printed for a recreated table that keeps a
\* column, gains one and loses one
C15_Witness ==
    /\ pc = "done"
    /\ \E i \in 1..Len(diff.modified) :
          /\ diff.modified[i].cls = "ModifiedTable"
          /\ CommonColumnNames(diff.modified[i]) # {}
          /\ KeySet(diff.modified[i].new.columns)
                 # CommonColumnNames(diff.modified[i])
          /\ KeySet(diff.modified[i].old.columns)
                 # CommonColumnNames(diff.modified[i])

\* the restorations of the object o in the lists of the ModifiedTable of
\* the diff, as pairs of the position of the table and the position in
\* its list
RestorationsOf(o) ==
    {p \in (1..Len(diff.modified)) \X (1..Len(old.indices) + Len(old.views)
                                            + Len(old.triggers)) :
        /\ diff.modified[p[1]].cls = "ModifiedTable"
        /\ p[2] <= Len(diff.modified[p[1]].references)
        /\ diff.modified[p[1]].references[p[2]].sql = Object_str(o)}

\* the diff holds a NewObject for an object of the new schema of this type
\* and name
InDiffAsNew(type, name) ==
    /\ DictHas(ObjectsOf(new, type), name)
    /\ \E i \in 1..Len(diff.new) :
          /\ diff.new[i].cls = "NewObject"
          /\ diff.new[i].sql = Object_str(DictGet(ObjectsOf(new, type), name))

\* C16: in the diff that schema_diff returns, an index, view or trigger of
\* the old schema is restored at most once, by one ModifiedTable; an object
\* that is restored is not also a NewObject, ModifiedObject or
\* DeletedObject of its kind and name; and only a ModifiedTable carries
\* restorations: no other change has a list of them, and no restoration
\* stands in the lists of the diff itself.
C16_NoObjectTwice ==
    Returned =>
        /\ \A type \in ObjectTypes :
              \A k \in 1..Len(ObjectsOf(old, type)) :
                  LET o == ObjectsOf(old, type)[k][2]
                  IN  /\ Cardinality(RestorationsOf(o)) <= 1
                      /\ RestorationsOf(o) # {} =>
                            /\ ~ InDiffAs(type, o.name)
                            /\ ~ InDiffAsNew(type, o.name)
        /\ \A i \in 1..Len(AllChanges(diff)) :
              /\ AllChanges(diff)[i].cls # "ReferencedObject"
              /\ AllChanges(diff)[i].cls # "ModifiedTable"
                    => "references" \notin DOMAIN AllChanges(diff)[i]
        /\ \A i \in 1..Len(diff.modified) :
              diff.modified[i].cls = "ModifiedTable" =>
                  \A j \in 1..Len(diff.modified[i].references) :
                      \E o \in OldObjects :
                          Object_str(o) = diff.modified[i].references[j].sql

\* C16 witness: schema_diff has returned a ModifiedTable that restores one
\* object of its table while another object of the same table is in the
\* diff as modified or deleted and is not restored
C16_Witness ==
    /\ Returned
    /\ \E i \in 1..Len(diff.modified) :
          /\ diff.modified[i].cls = "ModifiedTable"
          /\ Len(diff.modified[i].references) > 0
          /\ \E type \in ObjectTypes :
                \E o \in OwnedObjects(type, diff.modified[i].new.name) :
                    /\ InDiffAs(type, o.name)
                    /\ RestorationsOf(o) = {}

====
